---- MODULE Spec2Model ----
(***************************************************************************)
(* Booking store, calendar block stores and availability engine of the     *)
(* Baguio Pet Boarding backend.                                            *)
(*                                                                         *)
(* Dates are day numbers 1..MaxDate; 0 stands for SQL NULL / an absent     *)
(* date.  A booking row keeps the columns the capacity logic reads:        *)
(* service_id, start_date, end_date and status.                            *)
(***************************************************************************)
EXTENDS Integers, Sequences, FiniteSets, TLC

VARIABLES bookings, calendar_availability, unavailable_dates, today, resp,
          inflight, mail, cache, served, room, clients, calls

vars == <<bookings, calendar_availability, unavailable_dates, today, resp,
          inflight, mail, cache, served, room, clients,
          calls>>

(***************************************************************************)
(* Bounds of the model.                                                    *)
(***************************************************************************)
MaxDate == 3

MaxBookings == 3

\* requests the server handles at the same time
MaxProcs == 2

\* seconds of the clock and draws of Math.random that booking creation sees
MaxSeconds == 2

MaxDraw == 1

\* calls of the room-type normalizer on one value
MaxCalls == 2

\* connections the pool holds open
MaxConns == 2

Dates == 1..MaxDate

Conns == 1..MaxConns

\* a process that is not inside createBooking
noCall == [pc |-> "idle", bad |-> FALSE, reference |-> 0, success |-> FALSE]

NULL == 0

(***************************************************************************)
(* Static configuration.                                                   *)
(***************************************************************************)
SERVICE_TYPE_MAP ==
  [id \in 1..7 |->
     CASE id = 1 -> [type |-> "overnight", roomType |-> "deluxe"]
       [] id = 6 -> [type |-> "overnight", roomType |-> "premium"]
       [] id = 7 -> [type |-> "overnight", roomType |-> "executive"]
       [] id = 2 -> [type |-> "daycare",   roomType |-> "null"]
       [] id = 3 -> [type |-> "grooming",  roomType |-> "basic"]
       [] id = 4 -> [type |-> "grooming",  roomType |-> "special"]
       [] id = 5 -> [type |-> "grooming",  roomType |-> "premium"]]

ServiceIds == DOMAIN SERVICE_TYPE_MAP

TOTAL_CAPACITY ==
  [id \in 1..7 |->
     CASE id = 1 -> 8
       [] id = 6 -> 5
       [] id = 7 -> 2
       [] id = 2 -> 15
       [] id = 3 -> 8
       [] id = 4 -> 6
       [] id = 5 -> 4]

Max(a, b) == IF a >= b THEN a ELSE b

Min(a, b) == IF a <= b THEN a ELSE b

(***************************************************************************)
(* JavaScript strings and the room-type normalizer.                        *)
(***************************************************************************)
\* a value that is null or a string
jsNull == [isNull |-> TRUE, text |-> ""]

jsString(s) == [isNull |-> FALSE, text |-> s]

UpperCaseLetters == "ABCDEFGHIJKLMNOPQRSTUVWXYZ"

LowerCaseLetters == "abcdefghijklmnopqrstuvwxyz"

charAt(s, i) == SubSeq(s, i, i)

toLowerChar(c) ==
  IF \E i \in 1..Len(UpperCaseLetters) : charAt(UpperCaseLetters, i) = c
  THEN charAt(LowerCaseLetters,
              CHOOSE i \in 1..Len(UpperCaseLetters) : charAt(UpperCaseLetters, i) = c)
  ELSE c

\* String.prototype.toLowerCase
RECURSIVE toLowerCase(_)
toLowerCase(s) ==
  IF s = "" THEN "" ELSE toLowerChar(charAt(s, 1)) \o toLowerCase(Tail(s))

Whitespace == {" ", "\t", "\n"}

RECURSIVE trimStart(_)
trimStart(s) ==
  IF s # "" /\ charAt(s, 1) \in Whitespace THEN trimStart(Tail(s)) ELSE s

RECURSIVE trimEnd(_)
trimEnd(s) ==
  IF s # "" /\ charAt(s, Len(s)) \in Whitespace
  THEN trimEnd(SubSeq(s, 1, Len(s) - 1)) ELSE s

\* String.prototype.trim
trim(s) == trimEnd(trimStart(s))

\* s.replace(/_/g, ' ')
RECURSIVE replaceUnderscores(_)
replaceUnderscores(s) ==
  IF s = "" THEN ""
  ELSE (IF charAt(s, 1) = "_" THEN " " ELSE charAt(s, 1))
       \o replaceUnderscores(Tail(s))

\* String.prototype.includes
includes(s, sub) ==
  \E i \in 1..(Len(s) - Len(sub) + 1) : SubSeq(s, i, i + Len(sub) - 1) = sub

\* normalizeRoomType without toLowerCase
normalizeRoomType_caseSensitive(roomType) ==
  IF roomType.isNull \/ roomType.text = "" THEN jsNull
  ELSE LET val == replaceUnderscores(trim(roomType.text))
       IN  IF val \in {"deluxe", "deluxe room"} THEN jsString("Deluxe Room")
           ELSE IF val \in {"premium", "premium room"} THEN jsString("Premium Room")
           ELSE IF val \in {"executive", "executive room"} THEN jsString("Executive Room")
           ELSE IF includes(val, "deluxe") THEN jsString("Deluxe Room")
           ELSE IF includes(val, "premium") THEN jsString("Premium Room")
           ELSE IF includes(val, "executive") THEN jsString("Executive Room")
           ELSE jsNull

\* normalizeRoomType(roomType)
normalizeRoomType(roomType) ==
  IF roomType.isNull \/ roomType.text = "" THEN jsNull
  ELSE LET val == replaceUnderscores(toLowerCase(trim(roomType.text)))
       IN  IF val \in {"deluxe", "deluxe room"} THEN jsString("Deluxe Room")
           ELSE IF val \in {"premium", "premium room"} THEN jsString("Premium Room")
           ELSE IF val \in {"executive", "executive room"} THEN jsString("Executive Room")
           ELSE IF includes(val, "deluxe") THEN jsString("Deluxe Room")
           ELSE IF includes(val, "premium") THEN jsString("Premium Room")
           ELSE IF includes(val, "executive") THEN jsString("Executive Room")
           ELSE jsNull

validStatuses == {"pending", "confirmed", "completed", "cancelled", "no-show"}

(***************************************************************************)
(* Queries over the booking store.                                         *)
(***************************************************************************)
Ids == 1..Len(bookings)

\* rows b with  b.start_date <= d AND b.end_date >= d  and an active status;
\* a NULL end_date makes the comparison unknown, so the row is not selected
RoomAvailabilityRows(d, id) ==
  {i \in Ids : /\ bookings[i].service_id = id
               /\ bookings[i].start_date <= d
               /\ bookings[i].end_date # NULL
               /\ bookings[i].end_date >= d
               /\ bookings[i].status \notin {"completed", "cancelled", "no-show"}}

\* getRoomAvailability(date): the {total, available} entry of one room/service
getRoomAvailability(d, id) ==
  LET count == Cardinality(RoomAvailabilityRows(d, id))
      total == TOTAL_CAPACITY[id]
  IN  [total |-> total,
       available |-> IF count > 0 THEN Max(0, total - count) ELSE total]

\* countBookingsByServiceAndRoom(date, serviceType, roomType); roomType "" is absent
countBookingsByServiceAndRoom(d, serviceType, roomType) ==
  LET active(i) == bookings[i].status \notin {"completed", "cancelled", "no-show"}
      serviceIds == {id \in ServiceIds : /\ SERVICE_TYPE_MAP[id].type = serviceType
                                          /\ SERVICE_TYPE_MAP[id].roomType = roomType}
  IN  IF serviceType \in {"overnight", "grooming"} /\ roomType # ""
      THEN IF serviceIds = {} THEN 0
           ELSE Cardinality({i \in Ids : /\ SERVICE_TYPE_MAP[bookings[i].service_id].type = serviceType
                                          /\ bookings[i].start_date = d
                                          /\ bookings[i].service_id \in serviceIds
                                          /\ active(i)})
      ELSE Cardinality({i \in Ids : /\ SERVICE_TYPE_MAP[bookings[i].service_id].type = serviceType
                                     /\ bookings[i].start_date = d
                                     /\ active(i)})

\* services.max_slots of the seeded services, keyed by the service the id names
max_slots ==
  [id \in 1..7 |->
     CASE id = 1 -> 10
       [] id = 6 -> 10
       [] id = 7 -> 2
       [] id = 2 -> 10
       [] id = 3 -> 10
       [] id = 4 -> 5
       [] id = 5 -> 5]

\* GET /api/availability?date= : one {total_slots, available_slots} per service
availabilityByDate(d, id) ==
  LET booked == Cardinality({i \in Ids : /\ bookings[i].service_id = id
                                         /\ bookings[i].start_date = d
                                         /\ bookings[i].status \in {"pending", "confirmed"}})
  IN  [total_slots |-> max_slots[id], available_slots |-> max_slots[id] - booked]

\* GET /api/dashboard/availability/:date : one {max_slots, available_slots} per
\* service; BETWEEN start_date AND end_date selects no row without end_date
dashboardAvailabilityByDate(d, id) ==
  LET booked_count == Cardinality({i \in Ids :
         /\ bookings[i].service_id = id
         /\ bookings[i].end_date # NULL
         /\ bookings[i].start_date <= d /\ d <= bookings[i].end_date
         /\ bookings[i].status \in {"pending", "confirmed"}})
  IN  [max_slots |-> max_slots[id], available_slots |-> max_slots[id] - booked_count]

\* GET /api/services/availability/:date : booked_slots of one service
servicesBookedSlots(d, id) ==
  Cardinality({i \in Ids :
     /\ bookings[i].service_id = id
     /\ LET e == IF bookings[i].end_date = NULL THEN bookings[i].start_date
                 ELSE bookings[i].end_date
        IN  bookings[i].start_date <= d /\ d <= e
     /\ bookings[i].status \in {"pending", "confirmed"}})

\* GET /api/dashboard/services/availability run on day current_date: the
\* bookedSlots it shows for (date, service); counts are grouped by start_date
dashboardBookedSlots(d, id, current_date) ==
  IF d < current_date THEN 0
  ELSE Cardinality({i \in Ids : /\ bookings[i].service_id = id
                                /\ bookings[i].start_date = d
                                /\ bookings[i].end_date # NULL
                                /\ bookings[i].end_date >= current_date
                                /\ bookings[i].status # "cancelled"})

\* rows of unavailable_dates that cover (date, serviceType, roomType)
unavailableDatesRows(d, serviceType, roomType) ==
  {u \in unavailable_dates : /\ u.date = d
                             /\ (u.service_type = serviceType \/ u.service_type = "all")
                             /\ (u.room_type = roomType \/ u.room_type = "all")}

\* the total capacity calculateAvailableSlotsForDate assumes
totalSlotsOf(serviceType, roomType) ==
  IF serviceType = "overnight"
  THEN (IF roomType = "executive" THEN 2 ELSE 10)
  ELSE IF serviceType = "grooming"
  THEN (IF roomType \in {"premium", "special"} THEN 5 ELSE 10)
  ELSE 10

\* calculateAvailableSlotsForDate(date, serviceType, roomType) for the service id
calculateAvailableSlotsForDate(d, id) ==
  LET serviceType == SERVICE_TYPE_MAP[id].type
      roomType == SERVICE_TYPE_MAP[id].roomType
      totalSlots == totalSlotsOf(serviceType, roomType)
      bookedSlots == Cardinality({i \in Ids :
         /\ bookings[i].start_date <= d
         /\ (IF bookings[i].end_date = NULL THEN bookings[i].start_date
             ELSE bookings[i].end_date) >= d
         /\ SERVICE_TYPE_MAP[bookings[i].service_id].type = serviceType
         /\ (\/ SERVICE_TYPE_MAP[bookings[i].service_id].roomType = roomType
             \/ serviceType = "daycare")
         /\ bookings[i].status \notin {"cancelled", "cancel"}})
  IN  IF unavailableDatesRows(d, serviceType, roomType) # {} THEN 0
      ELSE Max(0, totalSlots - bookedSlots)

\* SELECT * FROM calendar_availability WHERE date = $1 AND is_available = FALSE
blockedDates(d) ==
  {c \in calendar_availability : c.date = d /\ ~c.is_available}

\* checkServiceAvailability(date, serviceType, roomType) for the service id
checkServiceAvailability(d, id) ==
  LET a == getRoomAvailability(d, id)
      blocked == blockedDates(d) # {}
      availableSlots == IF blocked THEN 0 ELSE a.available
  IN  [availableSlots |-> availableSlots,
       totalSlots |-> a.total,
       isAvailable |-> availableSlots > 0,
       isBlocked |-> blocked]

\* A date as JavaScript holds it: the store driver hands a DATE column over as
\* a Date object, formatDateString yields a string
DateObject(d) == [type |-> "object", day |-> d]

DateString(d) == [type |-> "string", day |-> d]

\* a === b on such values: strings are equal by content, an object only to
\* itself, and the values compared here are never the same object
strictEquals(a, b) == a.type = "string" /\ b.type = "string" /\ a.day = b.day

\* SELECT date, reason FROM calendar_availability
\*  WHERE date BETWEEN $1 AND $2 AND is_available = FALSE , listed by date
RECURSIVE blockedDatesBetween(_, _)
blockedDatesBetween(startDate, endDate) ==
  IF startDate > endDate THEN <<>>
  ELSE (IF blockedDates(startDate) = {} THEN <<>>
        ELSE LET c == CHOOSE c \in blockedDates(startDate) : TRUE
             IN  <<[date |-> DateObject(c.date), reason |-> c.reason]>>)
       \o blockedDatesBetween(startDate + 1, endDate)

\* the while loop of getUnavailableDates: one entry for each day of the range
\* that checkServiceAvailability reports as not available
RECURSIVE capacityDatesBetween(_, _, _)
capacityDatesBetween(id, startDate, endDate) ==
  IF startDate > endDate THEN <<>>
  ELSE LET availability == checkServiceAvailability(startDate, id)
       IN  (IF ~availability.isAvailable
            THEN <<[date |-> DateString(startDate),
                    reason |-> IF availability.isBlocked
                               THEN "Manually blocked"
                               ELSE "No available slots"]>>
            ELSE <<>>)
           \o capacityDatesBetween(id, startDate + 1, endDate)

\* dates.filter(d => !blockedDates.some(bd => bd.date === d.date))
notAmongBlocked(blocked, d) ==
  ~\E k \in 1..Len(blocked) : strictEquals(blocked[k].date, d.date)

\* getUnavailableDates(serviceType, roomType, startDate, endDate) for the
\* service id: data.unavailableDates
getUnavailableDates(id, startDate, endDate) ==
  LET blocked == blockedDatesBetween(startDate, endDate)
      dates == capacityDatesBetween(id, startDate, endDate)
  IN  blocked \o SelectSeq(dates, LAMBDA d : notAmongBlocked(blocked, d))

\* The handlers of the read routes, as [code, success, value]; storeFails: a
\* store query of the handler throws.  value -1 is an answer without a count.
\* calculateAvailableSlotsForDate catches the error and returns 10
calculateAvailableSlotsForDateOn(d, id, storeFails) ==
  IF storeFails THEN 10 ELSE calculateAvailableSlotsForDate(d, id)

\* GET /api/availability/:roomType/:date
availabilityByRoomTypeResponse(d, id, storeFails) ==
  [code |-> 200, success |-> TRUE,
   value |-> calculateAvailableSlotsForDateOn(d, id, storeFails)]

\* the model's countBookingsByServiceAndRoom catches the error and returns 0
countBookingsByServiceAndRoomOn(d, serviceType, roomType, storeFails) ==
  IF storeFails THEN 0 ELSE countBookingsByServiceAndRoom(d, serviceType, roomType)

\* GET /api/availability/count-bookings : bookingController.countBookingsByServiceAndRoom
countBookingsResponse(d, id, storeFails) ==
  [code |-> 200, success |-> TRUE,
   value |-> countBookingsByServiceAndRoomOn(d, SERVICE_TYPE_MAP[id].type,
               IF SERVICE_TYPE_MAP[id].roomType = "null" THEN ""
               ELSE SERVICE_TYPE_MAP[id].roomType, storeFails)]

\* GET /api/availability/room-availability : availabilityController.getRoomAvailability
\* over the model's getRoomAvailability, which reports success: false on an error
getRoomAvailabilityResponse(d, id, storeFails) ==
  IF storeFails THEN [code |-> 500, success |-> FALSE, value |-> -1]
  ELSE [code |-> 200, success |-> TRUE, value |-> getRoomAvailability(d, id).available]

\* The same operations keyed by the room-type text the caller sends.
\* serviceIdsOf: the ids SERVICE_TYPE_MAP holds for (serviceType, roomType)
serviceIdsOf(serviceType, roomType) ==
  {id \in ServiceIds : /\ SERVICE_TYPE_MAP[id].type = serviceType
                       /\ SERVICE_TYPE_MAP[id].roomType = roomType}

\* checkServiceAvailability(date, serviceType, roomType): the entry is read as
\* availability.overnight[roomType] / availability.grooming[roomType], and a
\* text that is not a key leaves isAvailable false and both counts 0
checkServiceAvailabilityFor(d, serviceType, roomType) ==
  LET blocked == blockedDates(d) # {}
      ids == IF serviceType = "daycare" THEN {2}
             ELSE IF serviceType \in {"overnight", "grooming"} /\ roomType # ""
             THEN serviceIdsOf(serviceType, roomType)
             ELSE {}
  IN  IF ids = {}
      THEN [availableSlots |-> 0, totalSlots |-> 0,
            isAvailable |-> FALSE, isBlocked |-> blocked]
      ELSE checkServiceAvailability(d, CHOOSE id \in ids : TRUE)

\* GET /api/availability/:roomType/:date : the room type is matched against
\* 'daycare', 'deluxe room', 'premium room', 'executive room' and the grooming
\* names as written, anything else is answered 400
availabilityByRoomType(roomType, d) ==
  LET id == CASE roomType = "daycare" -> 2
              [] roomType = "deluxe room" -> 1
              [] roomType = "premium room" -> 6
              [] roomType = "executive room" -> 7
              [] roomType = "Basic Bath & Dry" -> 3
              [] roomType = "Special Grooming Package" -> 4
              [] roomType = "Premium Grooming" -> 5
              [] OTHER -> 0
  IN  IF id = 0 THEN [code |-> 400, success |-> FALSE, value |-> -1]
      ELSE [code |-> 200, success |-> TRUE,
            value |-> calculateAvailableSlotsForDate(d, id)]

\* countBookingsByServiceAndRoom(date, serviceType, roomType) compares
\* roomType.toLowerCase() with the room types of SERVICE_TYPE_MAP
countBookingsFor(d, serviceType, roomType) ==
  countBookingsByServiceAndRoom(d, serviceType, toLowerCase(roomType))

\* Date parameters as the text the caller sends.
Digits == "0123456789"

isDigit(c) == \E i \in 1..Len(Digits) : charAt(Digits, i) = c

\* s has the shape of pattern, in which d stands for one digit
matchesPattern(s, pattern) ==
  /\ Len(s) = Len(pattern)
  /\ \A i \in 1..Len(pattern) :
       IF charAt(pattern, i) = "d" THEN isDigit(charAt(s, i))
       ELSE charAt(s, i) = charAt(pattern, i)

\* date.match(/^\d{4}-\d{2}-\d{2}$/)
matchesDateFormat(s) == matchesPattern(s, "dddd-dd-dd")

\* the number two digits at position i of s write
twoDigits(s, i) ==
  10 * ((CHOOSE k \in 1..10 : charAt(Digits, k) = charAt(s, i)) - 1)
    + ((CHOOSE k \in 1..10 : charAt(Digits, k) = charAt(s, i + 1)) - 1)

\* !isNaN(new Date(s).getTime()) for the date-time string format of the
\* language: a year, a year and month, or a full date, with an optional time
jsDateParses(s) ==
  /\ \E p \in {"dddd", "dddd-dd", "dddd-dd-dd", "dddd-dd-ddTdd:dd",
              "dddd-dd-ddTdd:dd:dd", "dddd-dd-ddTdd:dd:ddZ",
              "dddd-dd-ddTdd:dd:dd.dddZ"} : matchesPattern(s, p)
  /\ Len(s) >= 7 => twoDigits(s, 6) \in 1..12
  /\ Len(s) >= 10 => twoDigits(s, 9) \in 1..31

\* the day of the model a text that parses names: the day of the month, the
\* first when the text stops at the year or the month
dayOf(s) == IF Len(s) >= 10 THEN twoDigits(s, 9) ELSE 1

\* The handlers below answer [code, store, value]: the status, whether a store
\* query ran, and the count answered (-1: none).
\* GET /api/services/availability/:date : booked_slots of the daycare service
servicesAvailabilityByDate(date) ==
  IF date = "" \/ ~matchesDateFormat(date)
  THEN [code |-> 400, store |-> FALSE, value |-> -1]
  ELSE [code |-> 200, store |-> TRUE, value |-> servicesBookedSlots(dayOf(date), 2)]

\* GET /api/availability/daycare/:date : a text that is not YYYY-MM-DD but
\* parses as a date is redirected to the formatted date
daycareByDate(date) ==
  IF ~matchesDateFormat(date)
  THEN IF ~jsDateParses(date) THEN [code |-> 400, store |-> FALSE, value |-> -1]
       ELSE [code |-> 302, store |-> FALSE, value |-> -1]
  ELSE [code |-> 200, store |-> TRUE,
        value |-> calculateAvailableSlotsForDate(dayOf(date), 2)]

\* GET /api/availability/:roomType/:date for the executive room : a text that
\* parses as a date goes on to calculateAvailableSlotsForDate
availabilityByRoomTypeDate(date) ==
  IF ~matchesDateFormat(date) /\ ~jsDateParses(date)
  THEN [code |-> 400, store |-> FALSE, value |-> -1]
  ELSE [code |-> 200, store |-> TRUE,
        value |-> calculateAvailableSlotsForDate(dayOf(date), 7)]

\* GET /api/room-availability?date= : availabilityController.getRoomAvailability
\* formats the text with formatDateString, whose toISOString throws on a text
\* that does not parse ; value: the executive rooms available
roomAvailabilityByDate(date) ==
  IF date = "" THEN [code |-> 400, store |-> FALSE, value |-> -1]
  ELSE IF ~jsDateParses(date) THEN [code |-> 500, store |-> FALSE, value |-> -1]
  ELSE [code |-> 200, store |-> TRUE,
        value |-> getRoomAvailability(dayOf(date), 7).available]

\* date texts a caller sends: the days of the model, shorter and longer forms
\* of a date, and words
DateTexts ==
  {"2024-01-0" \o charAt(Digits, d + 1) : d \in Dates}
    \cup {"2024-01", "2024", "2024-01-02T00:00:00.000Z", "2024-01-02T10:30",
          "invalid-date", "tomorrow", "20240102", "2024-1-2"}

(***************************************************************************)
(* POST /bookings : bookingController.createBooking over the flat booking  *)
(* model's createBooking.  A request carries the fields the handler reads; *)
(* "" and 0 stand for an absent field.                                     *)
(***************************************************************************)
\* the services row the controller looks up (by service_id, else by service_type)
serviceRows(req) ==
  IF req.service_id # 0
  THEN {id \in ServiceIds : id = req.service_id}
  ELSE {id \in ServiceIds : SERVICE_TYPE_MAP[id].type = req.service_type}

\* pet_type / weight_category after the guest_pet fallback
petTypeOf(req) ==
  IF req.pet_type # "" THEN req.pet_type ELSE req.guest_pet_type

weightCategoryOf(req) ==
  IF req.weight_category # "" THEN req.weight_category ELSE req.guest_weight_category

\* cats are accepted when a cat price is set, or for overnight / daycare
serviceAllowsCat(id) ==
  \/ SERVICE_TYPE_MAP[id].type = "grooming"
  \/ SERVICE_TYPE_MAP[id].type \in {"overnight", "daycare"}

\* the controller's checks with the weight-category check left out
validateBooking_noWeightCheck(req, lookupFails) ==
  IF ~req.ownerName \/ ~req.ownerEmail \/ ~req.ownerPhone THEN 400
  ELSE IF \/ (req.service_id = 0 /\ req.service_type = "")
          \/ req.booking_date = NULL
          \/ petTypeOf(req) = "" THEN 400
  ELSE IF petTypeOf(req) \notin {"Dog", "Cat"} THEN 400
  ELSE IF lookupFails THEN 500
  ELSE IF serviceRows(req) = {} THEN 404
  ELSE 0

\* the controller's checks in order: the HTTP status of the first one that
\* rejects the request, 0 when all pass; lookupFails: the services query throws
validateBooking(req, lookupFails) ==
  LET service == CHOOSE id \in serviceRows(req) :
                    \A other \in serviceRows(req) : id <= other
  IN  IF ~req.ownerName \/ ~req.ownerEmail \/ ~req.ownerPhone THEN 400
      ELSE IF \/ (req.service_id = 0 /\ req.service_type = "")
              \/ req.booking_date = NULL
              \/ petTypeOf(req) = "" THEN 400
      ELSE IF petTypeOf(req) \notin {"Dog", "Cat"} THEN 400
      ELSE IF lookupFails THEN 500
      ELSE IF serviceRows(req) = {} THEN 404
      ELSE IF petTypeOf(req) = "Cat" /\ ~serviceAllowsCat(service) THEN 400
      ELSE IF /\ \/ petTypeOf(req) = "Dog"
                 \/ (petTypeOf(req) = "Cat" /\ SERVICE_TYPE_MAP[service].type # "grooming")
              /\ weightCategoryOf(req) \notin {"Small", "Medium", "Large", "X-Large", "Cat"}
           THEN 400
      ELSE 0

\* `BPB${refBase}${Math.floor(Math.random()*900+100)}` : refBase is the clock
\* as twelve digits YYMMDDHHMMSS, followed by three digits 100 + rnd; the
\* reference is kept as the number its digits spell
referenceNumber(now, rnd) == now * 1000 + (100 + rnd)

\* the row with the end_date of the request left out
newBookingRow_noEndDate(req, reference) ==
  [reference_number |-> reference,
   service_id |-> req.service_id,
   start_date |-> req.booking_date,
   end_date   |-> NULL,
   status     |-> "pending"]

\* the row the model's createBooking inserts
newBookingRow(req, reference) ==
  [reference_number |-> reference,
   service_id |-> req.service_id,
   start_date |-> req.booking_date,
   end_date   |-> req.end_date,
   status     |-> "pending"]

FailPoints == {"none", "lookup", "begin", "insert", "commit", "readback"}

\* BEGIN; INSERT ... RETURNING booking_id; COMMIT; getBookingById, without the
\* UNIQUE constraint on reference_number
createBookingModel_noUniqueReference(req, fail, reference) ==
  IF fail \in {"begin", "insert", "commit"} \/ req.service_id = 0
  THEN [success |-> FALSE, rows |-> bookings]
  ELSE [success |-> fail # "readback",
        rows |-> Append(bookings, newBookingRow(req, reference))]

\* BEGIN; INSERT ... RETURNING booking_id; COMMIT; getBookingById.
\* fail names the store query that throws.  A service_id that is absent
\* violates NOT NULL, and a reference_number some row already has violates
\* UNIQUE: both make the INSERT throw.
createBookingModel(req, fail, reference) ==
  IF fail = "begin" THEN [success |-> FALSE, rows |-> bookings]
  ELSE IF \/ fail = "insert"
          \/ req.service_id = 0
          \/ \E i \in Ids : bookings[i].reference_number = reference
       THEN [success |-> FALSE, rows |-> bookings]
  ELSE IF fail = "commit" THEN [success |-> FALSE, rows |-> bookings]
  ELSE IF fail = "readback"
       THEN [success |-> FALSE, rows |-> Append(bookings, newBookingRow(req, reference))]
  ELSE [success |-> TRUE, rows |-> Append(bookings, newBookingRow(req, reference))]

\* the controller's handler: the rows the store holds afterwards and the answer
createBookingResultAt(req, fail, reference) ==
  LET v == validateBooking(req, fail = "lookup")
      result == createBookingModel(req, fail, reference)
  IN  IF v # 0
      THEN [rows |-> bookings,
            resp |-> [code |-> v,
                      error |-> CASE v = 400 -> "ValidationError"
                                  [] v = 404 -> "NotFoundError"
                                  [] OTHER   -> "StoreError"]]
      ELSE [rows |-> result.rows,
            resp |-> IF result.success
                     THEN [code |-> 201, error |-> "none"]
                     ELSE [code |-> 400, error |-> "StoreError"]]

\* what becomes of the notifications a handler starts without awaiting them:
\* both sends resolve, a send rejects (caught and logged), or a send never
\* settles; mail tells whether a started notification is still unsettled
MailOutcomes == {"sent", "failed", "pending"}

\* the handler with the notifications awaited outside a try: a send that
\* rejects makes the handler answer 500 after the booking was written
createBookingNotify_awaited(req, fail, now, rnd, outcome) ==
  LET r == createBookingResultAt(req, fail, referenceNumber(now, rnd))
  IN  /\ Len(bookings) < MaxBookings
      /\ bookings' = r.rows
      /\ resp' = IF r.resp.code = 201 /\ outcome = "failed"
                 THEN [code |-> 500, error |-> "StoreError"] ELSE r.resp
      /\ mail' = IF r.resp.code = 201 /\ outcome = "pending" THEN "pending" ELSE mail
      /\ UNCHANGED <<calendar_availability, unavailable_dates, today, inflight, cache, served, room, clients, calls>>

\* the handler when the clock reads now, Math.random draws rnd and the
\* notifications end as outcome; they are started only after a successful
\* model call, and the answer is sent without waiting for them
createBookingNotify(req, fail, now, rnd, outcome) ==
  LET r == createBookingResultAt(req, fail, referenceNumber(now, rnd))
  IN  /\ Len(bookings) < MaxBookings
      /\ bookings' = r.rows
      /\ resp' = r.resp
      /\ mail' = IF r.resp.code = 201 /\ outcome = "pending" THEN "pending" ELSE mail
      /\ UNCHANGED <<calendar_availability, unavailable_dates, today, inflight, cache, served, room, clients, calls>>

\* the handler when the clock reads now and Math.random draws rnd
createBookingAt(req, fail, now, rnd) ==
  createBookingNotify(req, fail, now, rnd, "sent")

\* a reference no row has: the draw of a call that does not collide
nextReference == referenceNumber(1, Len(bookings))

createBookingResult(req, fail) == createBookingResultAt(req, fail, nextReference)

\* the handler with a draw that does not collide
createBooking(req, fail) == createBookingAt(req, fail, 1, Len(bookings))

(***************************************************************************)
(* Status updates and extensions.                                          *)
(***************************************************************************)
\* end_date = CASE WHEN end_date > CURRENT_DATE THEN CURRENT_DATE ELSE end_date END
\* (NULL > CURRENT_DATE is unknown, so a NULL end_date stays NULL)
clampEndDate(end_date, current_date) ==
  IF end_date # NULL /\ end_date > current_date THEN current_date ELSE end_date

\* PATCH /api/users/:id/status ; today is CURRENT_DATE.  After the UPDATE the
\* status-update email is started without awaiting it and ends as outcome
patchStatusNotify(id, status, outcome) ==
  LET stored == IF status = "complete" THEN "completed" ELSE status
  IN  /\ IF status \notin (validStatuses \cup {"complete"})
         THEN /\ bookings' = bookings
              /\ resp' = [code |-> 400, error |-> "ValidationError"]
              /\ mail' = mail
         ELSE IF id \notin Ids
         THEN /\ bookings' = bookings
              /\ resp' = [code |-> 404, error |-> "NotFoundError"]
              /\ mail' = mail
         ELSE /\ bookings' =
                   [bookings EXCEPT ![id] =
                      [@ EXCEPT !.status = stored,
                                !.end_date = IF stored = "completed"
                                             THEN clampEndDate(@, today) ELSE @]]
              /\ resp' = [code |-> 200, error |-> "none"]
              /\ mail' = IF outcome = "pending" THEN "pending" ELSE mail
      /\ UNCHANGED <<calendar_availability, unavailable_dates, today, inflight, cache, served, room, clients, calls>>

\* PATCH /api/users/:id/status whose email is sent
patchStatus(id, status) == patchStatusNotify(id, status, "sent")

\* bookingController.updateBookingStatus over the model's updateBookingStatus;
\* status "" is an absent status.  The UPDATE sets the status column only
updateBookingStatus(id, status) ==
  /\ IF status = "" \/ status \notin validStatuses
     THEN /\ bookings' = bookings
          /\ resp' = [code |-> 400, error |-> "ValidationError"]
     ELSE IF id \notin Ids
     THEN /\ bookings' = bookings
          /\ resp' = [code |-> 404, error |-> "NotFoundError"]
     ELSE /\ bookings' = [bookings EXCEPT ![id].status = status]
          /\ resp' = [code |-> 200, error |-> "none"]
  /\ UNCHANGED <<calendar_availability, unavailable_dates, today, inflight, mail, cache, served, room, clients, calls>>

\* the shared body of PATCH /:id/extend and PATCH /:id ; newEndDate 0 is absent
setEndDate(id, newEndDate) ==
  /\ IF newEndDate = NULL
     THEN /\ bookings' = bookings
          /\ resp' = [code |-> 400, error |-> "ValidationError"]
     ELSE IF id \notin Ids
     THEN /\ bookings' = bookings
          /\ resp' = [code |-> 404, error |-> "NotFoundError"]
     ELSE IF bookings[id].end_date # NULL /\ newEndDate <= bookings[id].end_date
     THEN /\ bookings' = bookings
          /\ resp' = [code |-> 400, error |-> "ValidationError"]
     ELSE /\ bookings' = [bookings EXCEPT ![id].end_date = newEndDate]
          /\ resp' = [code |-> 200, error |-> "none"]
  /\ UNCHANGED <<calendar_availability, unavailable_dates, today, inflight, mail, cache, served, room, clients, calls>>

\* PATCH /api/users/:id/extend
extendBooking(id, newEndDate) ==
  setEndDate(id, newEndDate)

\* PATCH /api/users/:id
patchBooking(id, targetEnd) ==
  setEndDate(id, targetEnd)

(***************************************************************************)
(* Calendar blocks.                                                        *)
(***************************************************************************)
\* INSERT ... ON CONFLICT (date) DO UPDATE SET is_available, reason
upsertCalendar(date, is_available, reason) ==
  {c \in calendar_availability : c.date # date}
     \cup {[date |-> date, is_available |-> is_available, reason |-> reason]}

\* POST /api/calendar/unavailable (admin upsert); reason "" is absent
markUnavailable(date, reason) ==
  /\ calendar_availability' =
        upsertCalendar(date, FALSE, IF reason = "" THEN "NULL" ELSE reason)
  /\ resp' = [code |-> 201, error |-> "none"]
  /\ UNCHANGED <<bookings, unavailable_dates, today, inflight, mail, cache, served, room, clients, calls>>

\* POST /api/calendar/available with ON CONFLICT (date) DO NOTHING in place of
\* DO UPDATE
markAvailable_doNothingOnConflict(date) ==
  /\ calendar_availability' =
        IF {c \in calendar_availability : c.date = date} # {}
        THEN calendar_availability
        ELSE upsertCalendar(date, TRUE, "NULL")
  /\ resp' = [code |-> 200, error |-> "none"]
  /\ UNCHANGED <<bookings, unavailable_dates, today, inflight, mail, cache, served, room, clients, calls>>

\* POST /api/calendar/available (admin upsert)
markAvailable(date) ==
  /\ calendar_availability' = upsertCalendar(date, TRUE, "NULL")
  /\ resp' = [code |-> 200, error |-> "none"]
  /\ UNCHANGED <<bookings, unavailable_dates, today, inflight, mail, cache, served, room, clients, calls>>

\* POST /api/calendar/unavailable, second handler: a plain INSERT, which the
\* UNIQUE (date) constraint rejects when the date has a row
insertUnavailableDate(date, reason) ==
  /\ IF {c \in calendar_availability : c.date = date} # {}
     THEN /\ calendar_availability' = calendar_availability
          /\ resp' = [code |-> 500, error |-> "StoreError"]
     ELSE /\ calendar_availability' = calendar_availability \cup
               {[date |-> date, is_available |-> FALSE,
                 reason |-> IF reason = "" THEN "NULL" ELSE reason]}
          /\ resp' = [code |-> 200, error |-> "none"]
  /\ UNCHANGED <<bookings, unavailable_dates, today, inflight, mail, cache, served, room, clients, calls>>

\* POST /api/unavailable-dates
postUnavailableDate(date, reason) ==
  /\ calendar_availability' =
        upsertCalendar(date, FALSE, IF reason = "" THEN "NULL" ELSE reason)
  /\ resp' = [code |-> 201, error |-> "none"]
  /\ UNCHANGED <<bookings, unavailable_dates, today, inflight, mail, cache, served, room, clients, calls>>

\* DELETE /api/unavailable-dates/:date : UPDATE ... SET is_available = TRUE
deleteUnavailableDate(date) ==
  /\ calendar_availability' =
        {IF c.date = date
         THEN [c EXCEPT !.is_available = TRUE, !.reason = "NULL"] ELSE c
           : c \in calendar_availability}
  /\ resp' = [code |-> 200, error |-> "none"]
  /\ UNCHANGED <<bookings, unavailable_dates, today, inflight, mail, cache, served, room, clients, calls>>

\* POST /api/calendar/availability/:date : toggle a row of unavailable_dates
toggleAvailability(date) ==
  /\ IF {u \in unavailable_dates : u.date = date} # {}
     THEN unavailable_dates' = {u \in unavailable_dates : u.date # date}
     ELSE unavailable_dates' = unavailable_dates \cup
            {[date |-> date, service_type |-> "all", room_type |-> "all"]}
  /\ resp' = [code |-> 200, error |-> "none"]
  /\ UNCHANGED <<bookings, calendar_availability, today, inflight, mail, cache, served, room, clients, calls>>

\* The toggle endpoint awaits its SELECT before it writes, so the handlers of
\* concurrent requests interleave between the two queries.
Procs == 1..MaxProcs

idle == [pc |-> "idle", date |-> NULL, existing |-> FALSE]

\* SELECT * FROM unavailable_dates WHERE date = ?
toggleSelect(p, date) ==
  /\ inflight[p] = idle
  /\ inflight' = [inflight EXCEPT ![p] =
        [pc |-> "selected", date |-> date,
         existing |-> {u \in unavailable_dates : u.date = date} # {}]]
  /\ UNCHANGED <<bookings, calendar_availability, unavailable_dates, today, resp, mail, cache, served, room, clients, calls>>

\* DELETE FROM unavailable_dates WHERE date = ?  or  INSERT INTO
\* unavailable_dates (date), which the UNIQUE KEY (date, service_type,
\* room_type) rejects when the row exists
toggleWrite(p) ==
  LET date == inflight[p].date
      row == [date |-> date, service_type |-> "all", room_type |-> "all"]
  IN  /\ inflight[p].pc = "selected"
      /\ IF inflight[p].existing
         THEN /\ unavailable_dates' = {u \in unavailable_dates : u.date # date}
              /\ resp' = [code |-> 200, error |-> "none"]
         ELSE IF row \in unavailable_dates
         THEN /\ unavailable_dates' = unavailable_dates
              /\ resp' = [code |-> 500, error |-> "StoreError"]
         ELSE /\ unavailable_dates' = unavailable_dates \cup {row}
              /\ resp' = [code |-> 200, error |-> "none"]
      /\ inflight' = [inflight EXCEPT ![p] = idle]
      /\ UNCHANGED <<bookings, calendar_availability, today, mail, cache, served, room, clients, calls>>

(***************************************************************************)
(* GET /api/services and the Redis response cache.  cache holds the body    *)
(* stored under the key of the URL, served the body of the last answer.    *)
(***************************************************************************)
\* booked_slots of each service in the body of GET /api/services
servicesBody ==
  [id \in ServiceIds |->
     Cardinality({i \in Ids :
        /\ bookings[i].service_id = id
        /\ bookings[i].start_date <= today
        /\ (bookings[i].end_date = NULL \/ bookings[i].end_date >= today)
        /\ bookings[i].status \in {"pending", "confirmed"}})]

\* the order in which the application registers the cache in front of the
\* router, which is not the order of the server
middlewareOrder_cacheFirst == <<"cacheMiddleware", "servicesRoutes">>

\* the layers of /api/services in the order the application registers them:
\* the router answers a matched route without calling next
middlewareOrder == <<"servicesRoutes", "cacheMiddleware">>

\* GET /api/services ; redisClient: the Redis client exists.  cacheMiddleware
\* runs only when it is registered before the router: it answers a stored body,
\* or lets the router answer and stores that body for five minutes
getServices(redisClient) ==
  LET cacheRuns == middlewareOrder[1] = "cacheMiddleware" /\ redisClient
      hit == cacheRuns /\ cache # {}
  IN  /\ served' = IF hit THEN cache ELSE {servicesBody}
      /\ cache' = IF cacheRuns /\ ~hit THEN {servicesBody} ELSE cache
      /\ resp' = [code |-> 200, error |-> "none"]
      /\ UNCHANGED <<bookings, calendar_availability, unavailable_dates, today,
                     inflight, mail, room, clients, calls>>

\* the server's clock: CURRENT_DATE moves to the next day
advanceDay ==
  /\ today < MaxDate
  /\ today' = today + 1
  /\ UNCHANGED <<bookings, calendar_availability, unavailable_dates, resp, inflight, mail, cache, served, room, clients, calls>>

(***************************************************************************)
(* Inputs and the specification.                                           *)
(***************************************************************************)
ReqServiceIds == {2, 7}

validRequest(id, d, e) ==
  [ownerName |-> TRUE, ownerEmail |-> TRUE, ownerPhone |-> TRUE,
   service_id |-> id, service_type |-> "",
   booking_date |-> d, end_date |-> e,
   pet_type |-> "Dog", guest_pet_type |-> "",
   weight_category |-> "Medium", guest_weight_category |-> ""]

ReqEndDates == {NULL, MaxDate}

Requests ==
  {validRequest(id, d, e) : id \in ReqServiceIds, d \in Dates, e \in ReqEndDates}
    \cup {[validRequest(7, 1, NULL) EXCEPT !.ownerName = FALSE]}

StatusInputs == validStatuses \cup {"complete", "bogus", ""}

Reasons == {"", "holiday"}

\* the bookings the update requests name: the first one and an unknown id
UpdateIds == {1, MaxBookings + 1}

Init ==
  /\ bookings = <<>>
  /\ calendar_availability = {}
  /\ unavailable_dates = {}
  /\ today = 1
  /\ resp = [code |-> 0, error |-> "none"]
  /\ inflight = [p \in Procs |-> idle]
  /\ mail = "none"
  /\ cache = {}
  /\ served = {}
  /\ room = [value |-> jsNull, calls |-> 0]
  /\ clients = [c \in Conns |-> [tx |-> "idle", pending |-> <<>>]]
  /\ calls = [p \in Procs |-> noCall]

\* the booking lifecycle
Next ==
  \/ \E req \in Requests, fail \in {"none", "readback"} : createBooking(req, fail)
  \/ \E id \in UpdateIds, status \in StatusInputs : patchStatus(id, status)
  \/ \E id \in UpdateIds, status \in StatusInputs : updateBookingStatus(id, status)
  \/ \E id \in UpdateIds, e \in {NULL} \cup Dates : extendBooking(id, e)
  \/ \E id \in UpdateIds, e \in {NULL} \cup Dates : patchBooking(id, e)
  \/ advanceDay

Spec == Init /\ [][Next]_vars

\* booking creation alone, with every store failure
NextCreate ==
  \E req \in Requests, fail \in FailPoints : createBooking(req, fail)

SpecCreate == Init /\ [][NextCreate]_vars

\* booking creation over requests with every defect the controller checks for
WideRequests ==
  [ownerName : BOOLEAN, ownerEmail : BOOLEAN, ownerPhone : BOOLEAN,
   service_id : {0, 3, 7, 99}, service_type : {""},
   booking_date : {NULL, 2}, end_date : ReqEndDates,
   pet_type : {"", "Dog", "Cat", "Bird"}, guest_pet_type : {""},
   weight_category : {"", "Medium", "Huge"}, guest_weight_category : {""}]
    \cup {[validRequest(0, 2, NULL) EXCEPT !.service_type = "daycare"],
          [validRequest(7, 2, NULL) EXCEPT !.pet_type = "", !.guest_pet_type = "Cat",
                                           !.weight_category = "",
                                           !.guest_weight_category = "Cat"],
          [validRequest(7, 2, NULL) EXCEPT !.pet_type = "", !.guest_pet_type = "Bird"],
          [validRequest(3, 2, NULL) EXCEPT !.weight_category = "",
                                           !.guest_weight_category = "Small"]}

ValidationFails == {"none", "lookup"}

NextValidation ==
  \E req \in WideRequests, fail \in ValidationFails : createBooking(req, fail)

SpecValidation == Init /\ [][NextValidation]_vars

\* booking creation with the clock and the random draw of each call; a handler
\* reads the clock before its INSERT runs, so inserts need not come in clock order
Seconds == 1..MaxSeconds

RandomDraws == 0..MaxDraw

ReferenceRequests == {validRequest(id, 1, NULL) : id \in ReqServiceIds}

NextReference ==
  \E req \in ReferenceRequests, now \in Seconds, rnd \in RandomDraws :
    createBookingAt(req, "none", now, rnd)

SpecReference == Init /\ [][NextReference]_vars

\* booking creation and status updates with every notification outcome
NotifyFails == {"none", "insert"}

NotifyRequests ==
  {validRequest(id, 1, e) : id \in ReqServiceIds, e \in ReqEndDates}
    \cup {[validRequest(2, 1, NULL) EXCEPT !.ownerName = FALSE]}

NextNotify ==
  \/ \E req \in NotifyRequests, fail \in NotifyFails, outcome \in MailOutcomes :
       createBookingNotify(req, fail, 1, Len(bookings), outcome)
  \/ \E id \in UpdateIds, status \in StatusInputs, outcome \in MailOutcomes :
       patchStatusNotify(id, status, outcome)

SpecNotify == Init /\ [][NextNotify]_vars

\* writes to the booking store between reads of GET /api/services
CacheStatuses == {"confirmed", "cancelled"}

NextCache ==
  \/ \E req \in NotifyRequests : createBooking(req, "none")
  \/ \E id \in UpdateIds, status \in CacheStatuses : patchStatus(id, status)
  \/ \E redisClient \in BOOLEAN : getServices(redisClient)
  \/ advanceDay

SpecCache == Init /\ [][NextCache]_vars

(***************************************************************************)
(* createBooking over the connection pool.  Every pool.query runs on some  *)
(* idle connection of the pool and returns it; a connection keeps its own   *)
(* transaction: idle, open with rows not yet committed, or aborted.        *)
(***************************************************************************)
\* the reference numbers of rows committed, pending or about to be inserted
usedReferences ==
  {bookings[i].reference_number : i \in Ids}
    \cup UNION {{clients[c].pending[k].reference_number :
                   k \in 1..Len(clients[c].pending)} : c \in Conns}
    \cup {calls[p].reference : p \in {q \in Procs : calls[q].pc \notin {"idle", "done"}}}

\* the row a call inserts
poolRow(reference) == newBookingRow(validRequest(7, 1, NULL), reference)

\* the rows a query on connection c sees
visibleRows(c) ==
  IF clients[c].tx = "open" THEN bookings \o clients[c].pending ELSE bookings

\* await pool.query('BEGIN') on connection c ; bad: the INSERT of this call
\* will be rejected by the store.  BEGIN is refused on an aborted transaction,
\* which the outer catch turns into a failure without ROLLBACK
poolBegin(p, c, bad) ==
  /\ calls[p].pc \in {"idle", "done"}
  /\ Cardinality(usedReferences) < MaxBookings
  /\ LET reference == CHOOSE r \in 1..MaxBookings : r \notin usedReferences
     IN  IF clients[c].tx = "aborted"
         THEN /\ calls' = [calls EXCEPT ![p] = [noCall EXCEPT !.pc = "done"]]
              /\ clients' = clients
              /\ resp' = [code |-> 400, error |-> "StoreError"]
         ELSE /\ calls' = [calls EXCEPT ![p] =
                             [pc |-> "insert", bad |-> bad,
                              reference |-> reference, success |-> FALSE]]
              /\ clients' = [clients EXCEPT ![c].tx = "open"]
              /\ resp' = resp
  /\ UNCHANGED <<bookings, calendar_availability, unavailable_dates, today,
                 inflight, mail, cache, served, room>>

\* await pool.query(INSERT ...) on connection c : outside a transaction the
\* row is committed at once, inside one it waits for that connection's COMMIT;
\* a rejected INSERT aborts the transaction of the connection
poolInsert(p, c) ==
  /\ calls[p].pc = "insert"
  /\ IF clients[c].tx = "aborted" \/ calls[p].bad
     THEN /\ calls' = [calls EXCEPT ![p].pc = "rollback"]
          /\ clients' = [clients EXCEPT ![c].tx =
                           IF @ = "idle" THEN "idle" ELSE "aborted"]
          /\ bookings' = bookings
     ELSE /\ calls' = [calls EXCEPT ![p].pc = "commit"]
          /\ IF clients[c].tx = "idle"
             THEN /\ bookings' = Append(bookings, poolRow(calls[p].reference))
                  /\ clients' = clients
             ELSE /\ bookings' = bookings
                  /\ clients' = [clients EXCEPT ![c].pending =
                                   Append(@, poolRow(calls[p].reference))]
  /\ UNCHANGED <<calendar_availability, unavailable_dates, today, resp,
                 inflight, mail, cache, served, room>>

\* await pool.query('COMMIT') on connection c : commits what that connection
\* holds, ends an aborted transaction without its rows, and does nothing on a
\* connection without a transaction
poolCommit(p, c) ==
  /\ calls[p].pc = "commit"
  /\ calls' = [calls EXCEPT ![p].pc = "readback"]
  /\ bookings' = IF clients[c].tx = "open" THEN bookings \o clients[c].pending
                 ELSE bookings
  /\ clients' = [clients EXCEPT ![c] = [tx |-> "idle", pending |-> <<>>]]
  /\ UNCHANGED <<calendar_availability, unavailable_dates, today, resp,
                 inflight, mail, cache, served, room>>

\* return await getBookingById(bookingId) on connection c : success when the
\* row is among the rows the connection sees; a query on an aborted
\* transaction throws, which getBookingById answers with success: false
poolReadback(p, c) ==
  /\ calls[p].pc = "readback"
  /\ LET found == /\ clients[c].tx # "aborted"
                  /\ \E k \in 1..Len(visibleRows(c)) :
                       visibleRows(c)[k].reference_number = calls[p].reference
     IN  /\ calls' = [calls EXCEPT ![p].pc = "done", ![p].success = found]
         /\ resp' = IF found THEN [code |-> 201, error |-> "none"]
                    ELSE [code |-> 400, error |-> "StoreError"]
  /\ UNCHANGED <<bookings, calendar_availability, unavailable_dates, today,
                 inflight, mail, cache, served, room, clients>>

\* await pool.query('ROLLBACK') on connection c, after a rejected INSERT
poolRollback(p, c) ==
  /\ calls[p].pc = "rollback"
  /\ calls' = [calls EXCEPT ![p].pc = "done"]
  /\ clients' = [clients EXCEPT ![c] = [tx |-> "idle", pending |-> <<>>]]
  /\ resp' = [code |-> 400, error |-> "StoreError"]
  /\ UNCHANGED <<bookings, calendar_availability, unavailable_dates, today,
                 inflight, mail, cache, served, room>>

NextPool ==
  \/ \E p \in Procs, c \in Conns, bad \in BOOLEAN : poolBegin(p, c, bad)
  \/ \E p \in Procs, c \in Conns : poolInsert(p, c)
  \/ \E p \in Procs, c \in Conns : poolCommit(p, c)
  \/ \E p \in Procs, c \in Conns : poolReadback(p, c)
  \/ \E p \in Procs, c \in Conns : poolRollback(p, c)

SpecPool == Init /\ [][NextPool]_vars

\* room-type values a booking row or a caller may carry: a word in three
\* capitalisations, a suffix, and surrounding blanks
RoomWords == {"deluxe", "Deluxe", "DELUXE", "premium", "Premium", "PREMIUM",
              "executive", "Executive", "EXECUTIVE", "suite", "daycare", ""}

RoomSuffixes == {"", " Room", " room", "_room", "_ROOM", "Room"}

RoomPads == {"", " "}

RoomTypeInputs ==
  {jsNull} \cup
  {jsString(l \o w \o x \o r) :
     l \in RoomPads, w \in RoomWords, x \in RoomSuffixes, r \in RoomPads}

\* one call of normalizeRoomType on the value held
normalizeRoom ==
  /\ room.calls < MaxCalls
  /\ room' = [value |-> normalizeRoomType(room.value), calls |-> room.calls + 1]
  /\ UNCHANGED <<bookings, calendar_availability, unavailable_dates, today, resp,
                 inflight, mail, cache, served, clients, calls>>

InitNormalize ==
  /\ bookings = <<>>
  /\ calendar_availability = {}
  /\ unavailable_dates = {}
  /\ today = 1
  /\ resp = [code |-> 0, error |-> "none"]
  /\ inflight = [p \in Procs |-> idle]
  /\ mail = "none"
  /\ cache = {}
  /\ served = {}
  /\ room \in [value : RoomTypeInputs, calls : {0}]
  /\ clients = [c \in Conns |-> [tx |-> "idle", pending |-> <<>>]]
  /\ calls = [p \in Procs |-> noCall]

NextNormalize == normalizeRoom

SpecNormalize == InitNormalize /\ [][NextNormalize]_vars

\* concurrent block requests
NextToggle ==
  \/ \E p \in Procs, d \in Dates : toggleSelect(p, d)
  \/ \E p \in Procs : toggleWrite(p)
  \/ \E d \in Dates, r \in Reasons : markUnavailable(d, r)
  \/ \E d \in Dates, r \in Reasons : insertUnavailableDate(d, r)
  \/ \E d \in Dates : markAvailable(d)

SpecToggle == Init /\ [][NextToggle]_vars

\* calendar blocks over a store of Executive Room bookings on day 2
CalendarRequests == {validRequest(7, 2, e) : e \in ReqEndDates}

NextCalendar ==
  \/ \E req \in CalendarRequests : createBooking(req, "none")
  \/ \E d \in Dates, r \in Reasons : markUnavailable(d, r)
  \/ \E d \in Dates : markAvailable(d)
  \/ \E d \in Dates, r \in Reasons : postUnavailableDate(d, r)
  \/ \E d \in Dates, r \in Reasons : insertUnavailableDate(d, r)
  \/ \E d \in Dates : deleteUnavailableDate(d)
  \/ \E d \in Dates : toggleAvailability(d)

SpecCalendar == Init /\ [][NextCalendar]_vars

\* the block routes alone, on a store without bookings
NextBlock ==
  \/ \E d \in Dates, r \in Reasons : markUnavailable(d, r)
  \/ \E d \in Dates : markAvailable(d)
  \/ \E d \in Dates, r \in Reasons : postUnavailableDate(d, r)
  \/ \E d \in Dates, r \in Reasons : insertUnavailableDate(d, r)
  \/ \E d \in Dates : deleteUnavailableDate(d)
  \/ \E d \in Dates : toggleAvailability(d)

SpecBlock == Init /\ [][NextBlock]_vars

(***************************************************************************)
(* The claims.  bookedCount is the specification's booked_count: bookings  *)
(* of the service that are pending or confirmed and whose date range       *)
(* (start_date alone when end_date is absent) contains the date.           *)
(***************************************************************************)
rangeEnd(b) == IF b.end_date = NULL THEN b.start_date ELSE b.end_date

covers(b, d) == b.start_date <= d /\ d <= rangeEnd(b)

bookedCountIn(rows, d, id) ==
  Cardinality({i \in 1..Len(rows) : /\ rows[i].service_id = id
                                    /\ rows[i].status \in {"pending", "confirmed"}
                                    /\ covers(rows[i], d)})

bookedCount(d, id) == bookedCountIn(bookings, d, id)

\* a block row of either block store covers (d, service id)
isBlocked(d, id) ==
  \/ blockedDates(d) # {}
  \/ unavailableDatesRows(d, SERVICE_TYPE_MAP[id].type, SERVICE_TYPE_MAP[id].roomType) # {}

\* C1: no overbooking: whatever createBooking calls were made, the pending or
\* confirmed bookings covering a date never exceed the total capacity of their
\* service / room type
C1_NoOverbooking ==
  \A d \in Dates, id \in ServiceIds : bookedCount(d, id) <= TOTAL_CAPACITY[id]

\* the request passes validation and some date of its range is already full
atCapacity(req) ==
  /\ validateBooking(req, FALSE) = 0
  /\ \E d \in Dates :
       /\ covers(newBookingRow(req, nextReference), d)
       /\ bookedCount(d, req.service_id) >= TOTAL_CAPACITY[req.service_id]

\* C2: capacity rejection: a createBooking request for a date and type whose
\* bookings already equal the capacity is answered with an error (400 or 409)
\* and inserts no row
C2_CapacityRejection ==
  [][\A req \in Requests :
       (atCapacity(req) /\ createBooking(req, "none"))
          => (bookings' = bookings /\ resp'.code \in {400, 409})]_vars

\* C3: capacity invariant: for every date and type that is not blocked, the
\* available count of getRoomAvailability and of checkServiceAvailability plus
\* the booked count equals the total capacity
C3_CapacityInvariant ==
  \A d \in Dates, id \in ServiceIds :
    ~isBlocked(d, id) =>
      /\ getRoomAvailability(d, id).available + bookedCount(d, id)
           = getRoomAvailability(d, id).total
      /\ checkServiceAvailability(d, id).availableSlots + bookedCount(d, id)
           = checkServiceAvailability(d, id).totalSlots

\* C4: a blocked date overrides capacity: when a block covers (d, type), every
\* availability operation reports 0 available for d
C4_BlockedOverridesCapacity ==
  \A d \in Dates, id \in ServiceIds :
    isBlocked(d, id) =>
      /\ getRoomAvailability(d, id).available = 0
      /\ checkServiceAvailability(d, id).availableSlots = 0
      /\ calculateAvailableSlotsForDate(d, id) = 0

\* the pending / confirmed bookings of the service, all with an end_date
activeWithEnd(id) ==
  {i \in Ids : bookings[i].service_id = id /\ bookings[i].status \in {"pending", "confirmed"}}

\* C5: multi-night containment: a pending or confirmed booking with an end_date
\* is counted by every booked-count operation on exactly the dates of
\* [start_date, end_date]
C5_MultiNightContainment ==
  \A d \in Dates, id \in ServiceIds :
    (\A i \in activeWithEnd(id) :
        bookings[i].end_date # NULL /\ bookings[i].start_date <= bookings[i].end_date)
      => /\ Cardinality(RoomAvailabilityRows(d, id)) = bookedCount(d, id)
         /\ countBookingsByServiceAndRoom(d, SERVICE_TYPE_MAP[id].type,
                IF SERVICE_TYPE_MAP[id].roomType = "null" THEN ""
                ELSE SERVICE_TYPE_MAP[id].roomType) = bookedCount(d, id)
         /\ availabilityByDate(d, id).total_slots - availabilityByDate(d, id).available_slots
              = bookedCount(d, id)

\* C6: single-day default: a pending or confirmed booking without an end_date
\* is counted on its start_date and on no other date by every availability
\* operation
C6_SingleDayDefault ==
  \A d \in Dates, id \in ServiceIds :
    (\A i \in activeWithEnd(id) : bookings[i].end_date = NULL)
      => /\ Cardinality(RoomAvailabilityRows(d, id)) = bookedCount(d, id)
         /\ servicesBookedSlots(d, id) = bookedCount(d, id)

\* C7: status filter: bookings that are cancelled, completed or no-show add
\* nothing to the booked count of any availability operation
C7_StatusFilter ==
  \A d \in Dates, id \in ServiceIds :
    (\A i \in Ids : bookings[i].service_id = id =>
                      bookings[i].status \in {"cancelled", "completed", "no-show"})
      => /\ RoomAvailabilityRows(d, id) = {}
         /\ servicesBookedSlots(d, id) = 0
         /\ isBlocked(d, id) \/ calculateAvailableSlotsForDate(d, id)
              = totalSlotsOf(SERVICE_TYPE_MAP[id].type, SERVICE_TYPE_MAP[id].roomType)
         /\ \A t \in Dates : dashboardBookedSlots(d, id, t) = 0

\* C8: completion clamps end_date: when a status update sets a booking with an
\* end_date to completed, afterwards its end_date is min(previous end_date, today)
C8_CompletionClampsEndDate ==
  [][\A i \in Ids :
       (/\ Len(bookings') = Len(bookings)
        /\ bookings[i].status # "completed"
        /\ bookings'[i].status = "completed"
        /\ bookings[i].end_date # NULL)
          => bookings'[i].end_date = Min(bookings[i].end_date, today)]_vars

\* C9: full rollback on failure: a createBooking that reports failure (any
\* response other than 201) leaves the booking store as it was
C9_RollbackOnFailure ==
  [][resp'.code # 201 => bookings' = bookings]_vars

\* the defects a request can have, as the claim lists them
claimPetType(req) ==
  IF req.pet_type # "" THEN req.pet_type ELSE req.guest_pet_type

claimWeightCategory(req) ==
  IF req.weight_category # "" THEN req.weight_category ELSE req.guest_weight_category

\* missing owner name / email / phone, missing service, booking date or pet
\* type, or a pet type that is not Dog or Cat
invalidBasics(req) ==
  \/ ~req.ownerName \/ ~req.ownerEmail \/ ~req.ownerPhone
  \/ (req.service_id = 0 /\ req.service_type = "")
  \/ req.booking_date = NULL
  \/ claimPetType(req) \notin {"Dog", "Cat"}

\* the request names a known service and lacks a valid weight category, for a
\* dog or for a cat in a service that is not grooming
invalidWeight(req) ==
  /\ req.service_id \in ServiceIds
  /\ \/ claimPetType(req) = "Dog"
     \/ (claimPetType(req) = "Cat" /\ SERVICE_TYPE_MAP[req.service_id].type # "grooming")
  /\ claimWeightCategory(req) \notin {"Small", "Medium", "Large", "X-Large", "Cat"}

\* the requests with at least one of the listed defects
InvalidRequests ==
  {req \in WideRequests : invalidBasics(req) \/ invalidWeight(req)}

validationAnswer == [code |-> 400, error |-> "ValidationError"]

\* C10: validation before mutation: in every reachable store, a createBooking
\* request answered with a validation error is answered 400 and leaves the
\* booking store as it was, and a request with one of the listed defects is
\* answered that way and writes nothing (a request whose only defect is the
\* weight category gets 500 instead, still without a write, when the services
\* lookup itself fails)
C10_ValidationBeforeMutation ==
  \A req \in WideRequests, fail \in ValidationFails :
    LET r == createBookingResult(req, fail)
    IN  /\ r.resp.error = "ValidationError" =>
              (r.resp.code = 400 /\ r.rows = bookings)
        /\ req \in InvalidRequests =>
              /\ r.rows = bookings
              /\ \/ r.resp = validationAnswer
                 \/ (~invalidBasics(req) /\ fail = "lookup" /\ r.resp.code = 500)

\* a validation error was answered over a store that holds a booking
C10_Witness ==
  /\ resp = validationAnswer
  /\ bookings # <<>>

\* C11: status-update errors: an update-status call whose new status is not one
\* of the five allowed values is answered 400, one whose status is allowed but
\* whose id matches no booking is answered 404, and in both cases every booking
\* is left as it was; for both entry points
C11_StatusUpdateErrors ==
  [][\A id \in UpdateIds, status \in StatusInputs :
       (patchStatus(id, status) \/ updateBookingStatus(id, status)) =>
         /\ status \notin validStatuses =>
              (resp'.code = 400 /\ bookings' = bookings)
         /\ (status \in validStatuses /\ id \notin Ids) =>
              (resp'.code = 404 /\ bookings' = bookings)]_vars

\* the calendar rows of a date
calendarRowsOf(rows, date) == {c \in rows : c.date = date}

C14_OneBlockRowPerDate ==
  [][/\ \A c1, c2 \in calendar_availability' : c1.date = c2.date => c1 = c2
     /\ \A u1, u2 \in unavailable_dates' :
          (u1.date = u2.date /\ u1.service_type = u2.service_type
             /\ u1.room_type = u2.room_type) => u1 = u2
     /\ resp'.code # 500]_vars

\* a block row exists for the date whose scope is the exact (service type,
\* room type) or the wildcard; a calendar_availability row has no scope columns
\* and blocks every service
blockRowCovers(d, serviceType, roomType) ==
  \/ \E c \in calendar_availability : c.date = d /\ ~c.is_available
  \/ \E u \in unavailable_dates :
       /\ u.date = d
       /\ u.service_type \in {serviceType, "all"}
       /\ u.room_type \in {roomType, "all"}

\* C15: block scope: for every date and service, the blocked test of
\* checkServiceAvailability and the blocked test of
\* calculateAvailableSlotsForDate are true exactly when a block row covers the
\* date with the exact or the wildcard scope
C15_BlockScope ==
  \A d \in Dates, id \in ServiceIds :
    LET serviceType == SERVICE_TYPE_MAP[id].type
        roomType == SERVICE_TYPE_MAP[id].roomType
        covered == blockRowCovers(d, serviceType, roomType)
    IN  /\ checkServiceAvailability(d, id).isBlocked = covered
        /\ (unavailableDatesRows(d, serviceType, roomType) # {}) = covered

\* C16: reference codes are unique: whatever createBooking calls were made, calls
\* in the same second with the same random draw included, no two bookings of the
\* store share a reference_number
C16_ReferenceUnique ==
  \A i, j \in Ids :
    i # j => bookings[i].reference_number # bookings[j].reference_number

\* a call whose clock and draw repeated those of a stored booking was refused,
\* and the store holds two bookings created in the same second
C16_Witness ==
  /\ resp = [code |-> 400, error |-> "StoreError"]
  /\ \E i, j \in Ids :
       /\ i # j
       /\ bookings[i].reference_number \div 1000 = bookings[j].reference_number \div 1000

C18_StoreErrorsSurface ==
  \A d \in Dates, id \in ServiceIds :
    /\ getRoomAvailabilityResponse(d, id, TRUE) =
         [code |-> 500, success |-> FALSE, value |-> -1]
    /\ countBookingsResponse(d, id, TRUE) =
         [code |-> 500, success |-> FALSE, value |-> -1]
    /\ availabilityByRoomTypeResponse(d, id, TRUE) =
         [code |-> 500, success |-> FALSE, value |-> -1]

C20_ListUnavailableDatesExact ==
  \A id \in ServiceIds, startDate \in Dates, endDate \in Dates :
    LET r == getUnavailableDates(id, startDate, endDate)
        entriesOf(d) == {k \in 1..Len(r) : r[k].date.day = d}
    IN  \A d \in Dates :
          LET blocked == blockedDates(d) # {}
              full == getRoomAvailability(d, id).available = 0
              listed == d \in startDate..endDate /\ (blocked \/ full)
          IN  /\ Cardinality(entriesOf(d)) = IF listed THEN 1 ELSE 0
              /\ \A k \in entriesOf(d) :
                   IF blocked
                   THEN r[k].reason \in
                          {"Manually blocked"}
                            \cup {c.reason : c \in blockedDates(d)}
                   ELSE r[k].reason = "No available slots"

\* the spellings of one room type that differ in letter case, underscore or
\* blank, surrounding blanks and the Room suffix
roomTypeSpellings(tag) ==
  CASE tag = "deluxe" ->
         {"deluxe", "Deluxe", "DELUXE", "Deluxe Room", "deluxe room",
          "deluxe_room", "DELUXE_ROOM", " deluxe ", " Deluxe Room "}
    [] tag = "premium" ->
         {"premium", "Premium", "PREMIUM", "Premium Room", "premium room",
          "premium_room", "PREMIUM_ROOM", " premium ", " Premium Room "}
    [] tag = "executive" ->
         {"executive", "Executive", "EXECUTIVE", "Executive Room", "executive room",
          "executive_room", "EXECUTIVE_ROOM", " executive ", " Executive Room "}

canonicalRoomType(tag) ==
  CASE tag = "deluxe" -> "Deluxe Room"
    [] tag = "premium" -> "Premium Room"
    [] tag = "executive" -> "Executive Room"

\* C22: normalizeRoomType maps every spelling of a room type ("Deluxe Room",
\* "deluxe_room", "DELUXE", and the premium and executive variants) to the
\* same canonical tag, and is idempotent: normalizing its result returns it
C22_NormalizeRoomType ==
  [][normalizeRoom =>
       /\ normalizeRoomType(room'.value) = room'.value
       /\ \A tag \in {"deluxe", "premium", "executive"} :
            (~room.value.isNull /\ room.value.text \in roomTypeSpellings(tag))
              => room'.value = jsString(canonicalRoomType(tag))]_vars

\* "DELUXE_ROOM" was normalized twice and is the canonical tag
C22_Witness ==
  /\ room.calls = MaxCalls
  /\ room.value = jsString("Deluxe Room")

\* C21: availability is insensitive to room-type spelling: on the same store
\* and date, spellings of one room type that differ only in letter case,
\* underscore or blank, surrounding blanks or the Room suffix get the same
\* available / total / isAvailable from checkServiceAvailability, the same
\* answer from GET /api/availability/:roomType/:date and the same booked count
C21_RoomTypeSpelling ==
  \A d \in Dates, tag \in {"deluxe", "premium", "executive"} :
    \A a \in roomTypeSpellings(tag), b \in roomTypeSpellings(tag) :
      /\ checkServiceAvailabilityFor(d, "overnight", a)
           = checkServiceAvailabilityFor(d, "overnight", b)
      /\ availabilityByRoomType(a, d) = availabilityByRoomType(b, d)
      /\ countBookingsFor(d, "overnight", a) = countBookingsFor(d, "overnight", b)

\* C23: strict date format: every endpoint taking a date as a path or query
\* parameter answers 400 to a value that is not exactly YYYY-MM-DD, runs no
\* store query for it, and never answers it with a success, a redirect or 500
C23_StrictDateFormat ==
  \A date \in DateTexts :
    ~matchesDateFormat(date) =>
      \A answer \in {servicesAvailabilityByDate(date), daycareByDate(date),
                     availabilityByRoomTypeDate(date), roomAvailabilityByDate(date)} :
        answer.code = 400 /\ ~answer.store

\* C24: daycare is one pool: on every date the daycare booked count of an
\* availability operation is the number of all pending or confirmed daycare
\* bookings covering the date, and the daycare availability it reports is its
\* total minus that count
C24_DaycareOnePool ==
  \A d \in Dates :
    /\ getRoomAvailability(d, 2).available
         = Max(0, getRoomAvailability(d, 2).total - bookedCount(d, 2))
    /\ unavailableDatesRows(d, "daycare", "null") = {}
         => calculateAvailableSlotsForDate(d, 2)
              = Max(0, totalSlotsOf("daycare", "null") - bookedCount(d, 2))

\* C25: effect of a successful createBooking: it adds exactly one booking row,
\* with status pending; the booked count of the request's service rises by
\* exactly one on each date of the requested range, the booked count of every
\* other (date, service) and every row that existed before are unchanged
C25_CreateBookingEffect ==
  \A req \in Requests, fail \in FailPoints :
    LET r == createBookingResult(req, fail)
        last == IF req.end_date = NULL THEN req.booking_date ELSE req.end_date
    IN  r.resp.code = 201 =>
          /\ Len(r.rows) = Len(bookings) + 1
          /\ SubSeq(r.rows, 1, Len(bookings)) = bookings
          /\ r.rows[Len(r.rows)].status = "pending"
          /\ \A d \in Dates, id \in ServiceIds :
               bookedCountIn(r.rows, d, id)
                 = bookedCount(d, id)
                     + (IF id = req.service_id /\ req.booking_date <= d /\ d <= last
                        THEN 1 ELSE 0)

\* a booking over several dates was created next to an earlier booking
C25_Witness ==
  /\ resp.code = 201
  /\ Len(bookings) >= 2
  /\ bookings[Len(bookings)].end_date # NULL
  /\ bookings[Len(bookings)].start_date < bookings[Len(bookings)].end_date

\* C26: available is bounded: in every reachable state, also when bookings
\* outnumber the capacity, every availability response reports an available
\* count between 0 and the total of the service; none is negative
C26_AvailableBounded ==
  \A d \in Dates, id \in ServiceIds :
    /\ getRoomAvailability(d, id).available \in 0..getRoomAvailability(d, id).total
    /\ availabilityByDate(d, id).available_slots
         \in 0..availabilityByDate(d, id).total_slots
    /\ dashboardAvailabilityByDate(d, id).available_slots
         \in 0..dashboardAvailabilityByDate(d, id).max_slots

\* C27: capacity is respected by every mutating operation, not only creation:
\* a step that extends a booking or updates a status (a cancelled, completed
\* or no-show booking set back to pending or confirmed included) never takes
\* the pending or confirmed bookings covering a date above the total capacity
\* of their service when they were within it before
C27_CapacityRespectedByUpdates ==
  [][(/\ Len(bookings') = Len(bookings)
      /\ \A d \in Dates, id \in ServiceIds : bookedCount(d, id) <= TOTAL_CAPACITY[id])
       => \A d \in Dates, id \in ServiceIds :
            bookedCountIn(bookings', d, id) <= TOTAL_CAPACITY[id]]_vars

\* C28: date range well-formedness: in every reachable state every booking
\* that has an end_date has start_date <= end_date; completing a booking whose
\* start_date is still to come, or extending a booking, never leaves its
\* end_date before its start_date
C28_DateRangeWellFormed ==
  \A i \in Ids :
    bookings[i].end_date # NULL => bookings[i].start_date <= bookings[i].end_date

\* the row with the reference number is committed
committed(rows, reference) ==
  \E i \in 1..Len(rows) : rows[i].reference_number = reference

\* C29: transaction isolation across the connection pool: under every
\* interleaving of concurrent createBooking calls, a booking whose call
\* returned success is committed (so every later query sees it), and the
\* ROLLBACK of a failing call never removes a row another call inserted
C29_TransactionIsolation ==
  [][/\ \A p \in Procs :
          (calls'[p].pc = "done" /\ calls'[p].success)
            => committed(bookings', calls'[p].reference)
     /\ \A p \in Procs, c \in Conns :
          poolRollback(p, c) =>
            \A k \in 1..Len(clients[c].pending) :
              clients[c].pending[k].reference_number = calls[p].reference]_vars

\* C30: one capacity table: for every service / room type, getRoomAvailability
\* and checkServiceAvailability, calculateAvailableSlotsForDate and GET
\* /api/availability report the same total capacity, and so the same available
\* count on the same store and date when the date is not blocked
C30_OneCapacityTable ==
  \A d \in Dates, id \in ServiceIds :
    LET serviceType == SERVICE_TYPE_MAP[id].type
        roomType == SERVICE_TYPE_MAP[id].roomType
    IN  /\ getRoomAvailability(d, id).total = totalSlotsOf(serviceType, roomType)
        /\ getRoomAvailability(d, id).total = availabilityByDate(d, id).total_slots
        /\ checkServiceAvailability(d, id).totalSlots = getRoomAvailability(d, id).total
        /\ ~isBlocked(d, id) =>
             /\ getRoomAvailability(d, id).available
                  = calculateAvailableSlotsForDate(d, id)
             /\ getRoomAvailability(d, id).available
                  = availabilityByDate(d, id).available_slots

====
